---- MODULE Spec2Model ----
(***************************************************************************)
(* Uptime monitor (src/app.py): the registry of monitored sites, the       *)
(* status ledger, the polling loop monitor_sites, the probes in flight and *)
(* the request handlers of UptimeMonitor.                                  *)
(*                                                                         *)
(* Conventions.  Latencies are whole milliseconds.  The two rounded fields *)
(* of a ledger entry (uptime_percent, avg_response_time) are held in       *)
(* hundredths (66.67 is 6667), the exact value of the two-decimal float    *)
(* that round(x, 2) returns.  The wall-clock strings of the code           *)
(* (history[i]['time'], last_checked) are left out: no branch of the code  *)
(* reads them.                                                             *)
(***************************************************************************)
EXTENDS Integers, Sequences, FiniteSets, Bags, TLC

(***************************************************************************)
(* IEEE-754 binary64 arithmetic, as far as update_site_status uses it:     *)
(* int / int, float * 100 and round(float, 2).  A significand has 53 bits, *)
(* more than an integer of the model checker holds, so a natural number is *)
(* kept as its sequence of limbs in base 2^15, least significant first,    *)
(* without leading zero limbs (0 is the empty sequence).  A positive       *)
(* double is [m |-> limbs, e |-> k] with 2^52 <= m < 2^53, of value        *)
(* m * 2^k; zero is FZero.                                                 *)
(*                                                                         *)
(* Intermediate values are bound through singleton sets,                   *)
(* The({body : x \in {e}}) for LET x == e IN body: the model checker then  *)
(* evaluates e once wherever the operators are used, also inside ENABLED   *)
(* (the fairness conditions), where it does not keep the value of a LET.   *)
(***************************************************************************)
The(S) == CHOOSE x \in S : TRUE

MantBits == 53

LimbBits == 15

RECURSIVE Pow2(_)
Pow2(n) == IF n = 0 THEN 1 ELSE 2 * Pow2(n - 1)

LimbBase == 32768

FZero == [m |-> << >>, e |-> 0]

\* The limbs of the natural number n.
RECURSIVE BigFromNat(_)
BigFromNat(n) ==
    IF n = 0 THEN << >> ELSE <<n % LimbBase>> \o BigFromNat(n \div LimbBase)

\* The natural number of limbs that fit an integer.
RECURSIVE BigToNat(_)
BigToNat(bs) ==
    IF bs = << >> THEN 0 ELSE Head(bs) + LimbBase * BigToNat(Tail(bs))

\* bs without its most significant zero limbs.
RECURSIVE BigNorm(_)
BigNorm(bs) ==
    IF bs = << >> THEN << >>
    ELSE IF bs[Len(bs)] = 0 THEN BigNorm(SubSeq(bs, 1, Len(bs) - 1))
    ELSE bs

\* bs * c + carry for naturals c <= 2^15 and carry.
RECURSIVE BigMulAdd(_, _, _)
BigMulAdd(bs, c, carry) ==
    IF bs = << >> THEN BigFromNat(carry)
    ELSE The({<<t % LimbBase>> \o BigMulAdd(Tail(bs), c, t \div LimbBase) :
                 t \in {Head(bs) * c + carry}})

\* Quotient and remainder of bs by a natural 0 < d <= 2^15; the quotient
\* keeps the length of bs (BigNorm strips it).
RECURSIVE BigDivRaw(_, _)
BigDivRaw(bs, d) ==
    IF bs = << >> THEN [q |-> << >>, r |-> 0]
    ELSE The({The({[q |-> <<cur \div d>> \o hi.q, r |-> cur % d] :
                      cur \in {hi.r * LimbBase + Head(bs)}}) :
                 hi \in {BigDivRaw(Tail(bs), d)}})

BigDivSmall(bs, d) ==
    The({[q |-> BigNorm(x.q), r |-> x.r] : x \in {BigDivRaw(bs, d)}})

\* The number of bits of a natural below 2^15.
RECURSIVE NatBitLen(_)
NatBitLen(n) == IF n = 0 THEN 0 ELSE 1 + NatBitLen(n \div 2)

BigBitLen(bs) ==
    IF bs = << >> THEN 0 ELSE LimbBits * (Len(bs) - 1) + NatBitLen(bs[Len(bs)])

BigOdd(bs) == bs # << >> /\ Head(bs) % 2 = 1

\* bs * 2^s.
BigShl(bs, s) ==
    IF bs = << >> THEN << >>
    ELSE [i \in 1..(s \div LimbBits) |-> 0] \o BigMulAdd(bs, Pow2(s % LimbBits), 0)

\* bs \div 2^s, with `sticky' set when a dropped bit is 1.
BigShr(bs, s) ==
    The({The({[q |-> x.q,
               sticky |-> x.r # 0 \/ \E i \in 1..limbs : bs[i] # 0] :
                 x \in {BigDivSmall(SubSeq(bs, limbs + 1, Len(bs)), Pow2(s % LimbBits))}}) :
            limbs \in {IF s \div LimbBits > Len(bs) THEN Len(bs) ELSE s \div LimbBits}})

\* The significand `kept' with the guard bit `guard' and the sticky bit
\* below them, rounded to nearest, ties to even; e is the exponent of kept.
FRoundGuard(kept, guard, sticky, e) ==
    IF ~(guard /\ (sticky \/ BigOdd(kept))) THEN [m |-> kept, e |-> e]
    ELSE The({IF BigBitLen(inc) = MantBits THEN [m |-> inc, e |-> e]
              ELSE [m |-> BigShr(inc, 1).q, e |-> e + 1] :
                 inc \in {BigMulAdd(kept, 1, 1)}})

\* Round to nearest, ties to even: the double nearest to ext * 2^e, where
\* ext has more than MantBits bits and `sticky' says that the true value
\* has non-zero bits below ext.
FRound(ext, e, sticky) ==
    The({The({FRoundGuard(BigShr(g.q, 1).q, BigOdd(g.q), sticky \/ g.sticky, e + drop) :
                 \* one bit more than the significand: the last one is the guard bit
                 g \in {BigShr(ext, drop - 1)}}) :
            drop \in {BigBitLen(ext) - MantBits}})

\* The k with 2^k <= a / b < 2^(k+1), searched upwards from k.
RECURSIVE FloorLog2Up(_, _, _)
FloorLog2Up(a, b, k) ==
    IF a < 2 * Pow2(k) * b THEN k ELSE FloorLog2Up(a, b, k + 1)

\* The j >= 1 with 2^(-j) <= a / b < 2^(-j+1), for a < b.
RECURSIVE FloorLog2Down(_, _, _)
FloorLog2Down(a, b, j) ==
    IF Pow2(j) * a >= b THEN j ELSE FloorLog2Down(a, b, j + 1)

\* The double nearest to a / b for the k with 2^k <= a / b < 2^(k+1): the
\* quotient is taken to 54 bits (significand and guard bit) and the
\* remainder decides the sticky bit.
FDivExp(a, b, k) ==
    The({FRound(x.q, k - MantBits, x.r # 0) :
            x \in {BigDivSmall(BigShl(BigFromNat(a), MantBits - k), b)}})

\* a / b in Python for naturals a and 0 < b <= 2^15: the correctly rounded
\* quotient.
FDiv(a, b) ==
    IF a = 0 THEN FZero
    ELSE The({FDivExp(n, d, IF n >= d THEN FloorLog2Up(n, d, 0) ELSE 0 - FloorLog2Down(n, d, 1)) :
                 n \in {a}, d \in {b}})

\* x * c in Python for a double x and a natural 0 < c <= 2^14.
FMul(x, c) ==
    The({IF v = FZero THEN FZero ELSE The({FRound(p, v.e - 1, FALSE) : p \in {BigMulAdd(v.m, 2 * c, 0)}}) :
            v \in {x}})

\* round(x, 2) in Python for a double 0 <= x < 2^24, in hundredths: the
\* decimal with two places nearest to the exact value of x, ties to even
\* (float.__round__ rounds the exact binary value correctly).  100 * x is
\* n * 2^e with e < 0, as for every double below 2^52.
FRound2Bits(n, e) ==
    The({The({IF BigOdd(g.q) /\ (g.sticky \/ whole % 2 = 1) THEN whole + 1 ELSE whole :
                 whole \in {BigToNat(BigShr(g.q, 1).q)}}) :
            g \in {BigShr(n, (0 - e) - 1)}})

FRound2(x) ==
    The({IF v = FZero THEN 0 ELSE FRound2Bits(BigMulAdd(v.m, 100, 0), v.e) : v \in {x}})

(***************************************************************************)
(* Bounds of the model and the inputs drawn.                               *)
(***************************************************************************)
\* Spec: outcomes held in the ledger or awaited by a probe in flight, over
\* all URLs (deleting a target gives its share back).
MaxChecks == 2

\* SpecLedger: records made for the one target.
MaxRecords == 160

\* SpecLedger: the first FreeHead probe results are arbitrary; a later
\* probe answers 200 on every UpEvery-th record and fails otherwise.
FreeHead == 3

UpEvery == 7

\* The values of data['url'], which lines 1238 and 1299-1322 take as they
\* come out of the JSON body.  A string that is hashable, equal to itself
\* and printable behaves as a URL should ("u1", "u2").  Three kinds of
\* value behave otherwise:
\*   - an array or an object (UrlArray stands for the array ["u1"]) is
\*     compared by value but is unhashable: every `in self.status_data' and
\*     every self.status_data[...] with it raises TypeError;
\*   - the number NaN (UrlNaN) is hashable but equal to nothing, itself
\*     included; json.loads gives the one float object json.decoder.NaN for
\*     every NaN it reads, so that as a dictionary key, found by identity,
\*     it is one key;
\*   - a string holding a lone surrogate (UrlSurrogate stands for "\ud800",
\*     which json.loads reads) is hashable and equal to itself, but cannot
\*     be encoded for stdout: the print of line 58 raises UnicodeEncodeError.
UrlArray == "[u1]"

UrlNaN == "NaN"

UrlSurrogate == "ud800"

StrUrls == {"u1", "u2"}

Urls == StrUrls \cup {UrlArray, UrlNaN, UrlSurrogate}

\* hash(url) does not raise.
Hashable(url) == url # UrlArray

\* print(f"... {url} ...") does not raise.
Printable(url) == url # UrlSurrogate

\* a == b in Python, for two values of data['url'].
UrlEq(a, b) == a = b /\ a # UrlNaN

Names == {"n1"}

Intervals == {30}

\* Bound of Spec: the sites monitored_sites holds at once (NaN can be added
\* again and again, and never deleted).
MaxSites == 2

Origins == {"sched", "manual"}

\* The clients of /status_updates.
Subs == {"s1", "s2"}

\* What a probe can meet: an HTTP response with a status code after
\* `latency' ms, or an exception (connection failure, timeout, DNS).
Response(code, latency) == [type |-> "response", code |-> code, latency |-> latency]

ProbeException == [type |-> "exception", code |-> 0, latency |-> 0]

ProbeResults ==
    {Response(200, 100), Response(200, 200), Response(201, 100), Response(404, 100),
     ProbeException}

\* Spec draws from fewer results than SpecLedger.
SpecResults == {Response(200, 100), ProbeException}

NoEntry == [absent |-> TRUE]

(***************************************************************************)
(* The program's state.  A MonitoredSite object is the record of its four  *)
(* fields.  An object can act while the list holds it or a check_site call *)
(* in flight does: the list holds records, each with the calls in flight   *)
(* on it, and a call whose site has left the list keeps the record of its  *)
(* site, which nothing can change any more (handle_pause_site reaches      *)
(* sites through the list only).                                           *)
(***************************************************************************)
VARIABLES
    monitored_sites,  \* self.monitored_sites: the list of MonitoredSite objects
    status_data,      \* self.status_data: URL -> ledger entry, or NoEntry
    inflight,         \* check_site calls awaiting their answer, per listed site (by position) and origin
    detached,         \* check_site calls awaiting their answer whose site has left the list: a bag of [site, origin]
    monitor_pc,       \* where monitor_sites stands: "sleeping", "gathering", "raising" (the gather has an exception for it), "crashed" (the task has ended)
    sleep_delay,      \* the argument of the last asyncio.sleep call of monitor_sites (0 during a gather)
    subs              \* the handle_status_updates calls under way, per subscriber

vars == <<monitored_sites, status_data, inflight, detached, monitor_pc, sleep_delay, subs>>

\* MonitoredSite(name, url, interval): paused defaults to False.
MonitoredSite(name, url, interval) ==
    [name |-> name, url |-> url, interval |-> interval, paused |-> FALSE]

(***************************************************************************)
(* update_site_status and check_site.                                      *)
(***************************************************************************)
HistoryCap == 100

\* Line 95: round((up_count / total_checks) * 100, 2).
UptimePercent(up, total) == FRound2(FMul(FDiv(up, total), 100))

\* sum(successful_responses): the latencies are whole numbers, which float
\* addition sums exactly.
RECURSIVE SumOver(_, _)
SumOver(vals, h) ==
    IF vals = {} THEN 0
    ELSE LET v == CHOOSE x \in vals : TRUE
         IN  v * Cardinality({i \in 1..Len(h) : h[i].status = "up" /\ h[i].response_time = v})
             + SumOver(vals \ {v}, h)

\* Variant of line 101 without its filter: every record of the history
\* counts, whatever its status.
SuccessfulResponses_AllRecords(h) ==
    [count |-> Len(h),
     sum   |-> SumOver({h[i].response_time : i \in 1..Len(h)},
                       [i \in 1..Len(h) |-> [h[i] EXCEPT !.status = "up"]])]

\* Line 101: the response times of the 'up' records of the history, as
\* their number and their sum.
SuccessfulResponses(h) ==
    LET ups == {i \in 1..Len(h) : h[i].status = "up"}
    IN  [count |-> Cardinality(ups),
         sum   |-> SumOver({h[i].response_time : i \in ups}, h)]

\* Variant of line 102 that divides by the length of the history.
AvgResponseTime_OverHistory(h) ==
    LET sr == SuccessfulResponses(h)
    IN  IF sr.count = 0 THEN 0 ELSE FRound2(FDiv(sr.sum, Len(h)))

\* Line 102: round(sum / len, 2) if successful_responses else 0.
AvgResponseTime(h) ==
    LET sr == SuccessfulResponses(h)
    IN  IF sr.count = 0 THEN 0 ELSE FRound2(FDiv(sr.sum, sr.count))

\* Lines 65-77: the entry created on the first outcome of a URL.
NewEntry(site, status) ==
    [name |-> site.name, history |-> << >>, uptime_percent |-> 0, response_time |-> 0,
     total_checks |-> 0, up_count |-> 0, down_count |-> 0, avg_response_time |-> 0,
     last_status |-> status, paused |-> site.paused]

\* Variant of lines 86-87 with pop() for pop(0): the newest record is the
\* one dropped.
AppendHistory_DropsNewest(h, status, response_time) ==
    LET h1 == Append(h, [status |-> status, response_time |-> response_time])
    IN  IF Len(h1) > HistoryCap THEN SubSeq(h1, 1, HistoryCap) ELSE h1

\* Lines 80-87: append, then drop the oldest record beyond the capacity.
AppendHistory(h, status, response_time) ==
    LET h1 == Append(h, [status |-> status, response_time |-> response_time])
    IN  IF Len(h1) > HistoryCap THEN Tail(h1) ELSE h1

\* Variant of update_site_status that leaves uptime_percent as it was (a
\* reader between the counters and line 95 would see this).
UpdateEntry_StalePercent(record, site, status, response_time) ==
    LET history == AppendHistory(record.history, status, response_time)
        total   == record.total_checks + 1
        up      == IF status = "up" THEN record.up_count + 1 ELSE record.up_count
        down    == IF status = "up" THEN record.down_count ELSE record.down_count + 1
    IN  [name |-> record.name, history |-> history,
         uptime_percent |-> record.uptime_percent,
         response_time |-> response_time,
         total_checks |-> total, up_count |-> up, down_count |-> down,
         avg_response_time |-> AvgResponseTime(history),
         last_status |-> status, paused |-> site.paused]

\* Variant of lines 89-93 with the counters taken from the retained
\* window instead of being incremented.
UpdateEntry_WindowCounters(record, site, status, response_time) ==
    LET history == AppendHistory(record.history, status, response_time)
        total   == Len(history)
        up      == Cardinality({i \in 1..Len(history) : history[i].status = "up"})
        down    == total - up
    IN  [name |-> record.name, history |-> history,
         uptime_percent |-> UptimePercent(up, total),
         response_time |-> response_time,
         total_checks |-> total, up_count |-> up, down_count |-> down,
         avg_response_time |-> AvgResponseTime(history),
         last_status |-> status, paused |-> site.paused]

\* Lines 79-102 on one entry.
UpdateEntry(record, site, status, response_time) ==
    LET history == AppendHistory(record.history, status, response_time)
        total   == record.total_checks + 1
        up      == IF status = "up" THEN record.up_count + 1 ELSE record.up_count
        down    == IF status = "up" THEN record.down_count ELSE record.down_count + 1
    IN  [name |-> record.name, history |-> history,
         uptime_percent |-> UptimePercent(up, total),
         response_time |-> response_time,
         total_checks |-> total, up_count |-> up, down_count |-> down,
         avg_response_time |-> AvgResponseTime(history),
         last_status |-> status, paused |-> site.paused]

\* Line 64, `site.url not in self.status_data', hashes site.url: for an
\* unhashable one update_site_status raises TypeError there, having changed
\* nothing.
UpdateRaises(site) == ~Hashable(site.url)

\* update_site_status(site, status, response_time) on the ledger sd, for a
\* site it does not raise for.
UpdateSiteStatus(sd, site, status, response_time) ==
    LET record == IF sd[site.url] = NoEntry THEN NewEntry(site, status) ELSE sd[site.url]
    IN  [sd EXCEPT ![site.url] = UpdateEntry(record, site, status, response_time)]

\* Line 52: the timeout of a probe, in seconds.
ProbeTimeout == 10

\* check_site, lines 49-57: the status and response time of a probe result.
CheckSiteStatus(result) ==
    IF result.type = "response" /\ result.code = 200 THEN "up" ELSE "down"

CheckSiteResponseTime(result) ==
    IF result.type = "response" THEN result.latency ELSE 0


(***************************************************************************)
(* Helpers on the registry and the probes in flight.                       *)
(***************************************************************************)
\* The positions of monitored_sites holding a site of this URL.
Positions(url) == {i \in 1..Len(monitored_sites) : UrlEq(monitored_sites[i].url, url)}

Registered(url) == Positions(url) # {}

\* next((site for site in self.monitored_sites if site.url == url), None):
\* the first match, as its position (only called when there is one).
FirstSite(url) == CHOOSE i \in Positions(url) : \A j \in Positions(url) : i <= j

\* The elements of seq at the positions ps, in order.
SubSeqAt(seq, ps) ==
    LET F[i \in 0..Len(seq)] ==
            IF i = 0 THEN << >>
            ELSE IF i \in ps THEN Append(F[i - 1], seq[i]) ELSE F[i - 1]
    IN  F[Len(seq)]

\* The check_site calls in flight on the listed site at position i, as a
\* bag of [site, origin].
CallsOn(i) ==
    [c \in {[site |-> monitored_sites[i], origin |-> o] :
                o \in {x \in Origins : inflight[i][x] > 0}} |-> inflight[i][c.origin]]

\* The bag with the calls in flight on the sites at positions ps added.
RECURSIVE Detach(_, _)
Detach(bag, ps) ==
    IF ps = {} THEN bag
    ELSE LET i == CHOOSE x \in ps : TRUE IN Detach(bag (+) CallsOn(i), ps \ {i})

RECURSIVE SumListed(_)
SumListed(ps) ==
    IF ps = {} THEN 0
    ELSE LET i == CHOOSE x \in ps : TRUE
         IN  inflight[i].sched + inflight[i].manual + SumListed(ps \ {i})

\* The check_site calls in flight.
InFlightCalls == SumListed(1..Len(monitored_sites)) + BagCardinality(detached)

RECURSIVE SumCopies(_)
SumCopies(cs) ==
    IF cs = {} THEN 0
    ELSE LET c == CHOOSE x \in cs : TRUE IN CopiesIn(c, detached) + SumCopies(cs \ {c})

RECURSIVE SumOrigin(_, _)
SumOrigin(ps, origin) ==
    IF ps = {} THEN 0
    ELSE LET i == CHOOSE x \in ps : TRUE IN inflight[i][origin] + SumOrigin(ps \ {i}, origin)

\* The calls in flight of one origin on a site of this URL (the value of
\* its url field), listed or not.
InFlightUrl(url, origin) ==
    SumOrigin({i \in 1..Len(monitored_sites) : monitored_sites[i].url = url}, origin)
    + SumCopies({c \in BagToSet(detached) : c.site.url = url /\ c.origin = origin})

Recorded(url) == IF status_data[url] = NoEntry THEN 0 ELSE status_data[url].total_checks

RECURSIVE SumRecorded(_)
SumRecorded(us) ==
    IF us = {} THEN 0
    ELSE LET u == CHOOSE x \in us : TRUE IN Recorded(u) + SumRecorded(us \ {u})

\* Bound of Spec: an add of this URL appends nothing, or the list has room.
SiteRoom(url) == Registered(url) \/ Len(monitored_sites) < MaxSites

\* Bound of Spec: n more probes may be launched.
Room(n) == SumRecorded(Urls) + InFlightCalls + n <= MaxChecks

\* self.check_site(site) is started for the sites at positions ps: the
\* request is out, the answer awaited.
Launch(inf, ps, origin) ==
    [i \in 1..Len(inf) |-> IF i \in ps THEN [inf[i] EXCEPT ![origin] = @ + 1] ELSE inf[i]]

(***************************************************************************)
(* monitor_sites.                                                          *)
(***************************************************************************)
\* Variant of lines 36-38 without the test of site.paused.
Tasks_WithPaused == 1..Len(monitored_sites)

\* Lines 36-38: the sites a cycle probes, by position.
Tasks == {i \in 1..Len(monitored_sites) : ~monitored_sites[i].paused}

RECURSIVE SetMin(_)
SetMin(S) ==
    LET x == CHOOSE y \in S : TRUE
    IN  IF S = {x} THEN x ELSE LET m == SetMin(S \ {x}) IN IF x < m THEN x ELSE m

\* An interval above the largest float (about 1.8 * 10^308), such as
\* 10**400, which int() of line 1246 returns as it is: the numbers of TLC
\* end at 2^31 - 1, which stands for it.
Huge == 2147483647

\* asyncio.sleep(delay) adds delay to the float loop.time(): OverflowError
\* for an integer too large for a float.
SleepOverflows(delay) == delay >= Huge

\* Variant of lines 42-46 whose min() runs over every listed site, the
\* paused ones too.
AfterGather_MinOverAll ==
    IF monitored_sites # << >>
    THEN IF Tasks = {}
         THEN [pc |-> "crashed", delay |-> 0]
         ELSE LET shortest_interval ==
                      SetMin({monitored_sites[i].interval : i \in 1..Len(monitored_sites)})
              IN  [pc |-> IF SleepOverflows(shortest_interval) THEN "crashed" ELSE "sleeping",
                   delay |-> shortest_interval]
    ELSE [pc |-> "sleeping", delay |-> 10]

\* Lines 42-46: where the loop stands after the gather, and the delay
\* asyncio.sleep is called with.  min() of an empty generator raises
\* ValueError (no sleep is called) and asyncio.sleep of an integer too
\* large raises OverflowError; nothing catches them: the task running
\* monitor_sites ends.
AfterGather ==
    IF monitored_sites # << >>
    THEN IF Tasks = {}
         THEN [pc |-> "crashed", delay |-> 0]
         ELSE LET shortest_interval == SetMin({monitored_sites[i].interval : i \in Tasks})
              IN  [pc |-> IF SleepOverflows(shortest_interval) THEN "crashed" ELSE "sleeping",
                   delay |-> shortest_interval]
    ELSE [pc |-> "sleeping", delay |-> 10]

\* The sleep is over: lines 35-40 start the probes of a cycle.  With no
\* task, gather() is done at once and the loop goes on to lines 42-46
\* without yielding.
MonitorWake ==
    /\ monitor_pc = "sleeping"
    /\ IF Tasks = {}
       THEN /\ monitor_pc' = AfterGather.pc
            /\ sleep_delay' = AfterGather.delay
            /\ UNCHANGED inflight
       ELSE /\ monitor_pc' = "gathering"
            /\ sleep_delay' = 0
            /\ inflight' = Launch(inflight, Tasks, "sched")
    /\ UNCHANGED <<monitored_sites, status_data, detached, subs>>

\* The calls of the cycle under way that have not completed.
SchedInFlight ==
    \/ \E i \in 1..Len(monitored_sites) : inflight[i].sched > 0
    \/ \E c \in BagToSet(detached) : c.origin = "sched"

\* Line 40 returns: every probe of the cycle has completed.
MonitorGathered ==
    /\ monitor_pc = "gathering"
    /\ ~SchedInFlight
    /\ monitor_pc' = AfterGather.pc
    /\ sleep_delay' = AfterGather.delay
    /\ UNCHANGED <<monitored_sites, status_data, inflight, detached, subs>>

\* Line 58, in the except branch of check_site: the print of the URL
\* raises for a URL stdout cannot encode, before line 60 is reached.
PrintRaises(url, result) == result.type = "exception" /\ ~Printable(url)

\* check_site(site) raises instead of returning a status.
CheckSiteRaises(site, result) == PrintRaises(site.url, result) \/ UpdateRaises(site)

\* check_site(site), lines 48-61, from its answer on (or its exception,
\* lines 55-58): update_site_status is called, line 60, with the site the
\* call was started with.  When the print of line 58 or update_site_status
\* raises (CheckSiteRaises), nothing is recorded and check_site raises:
\* into the request handler for a check-now, and for a probe of a cycle
\* into the gather of line 40, whose future takes the first exception of
\* its calls, the other calls of the cycle running on.  monitor_sites,
\* which awaits the gather, is resumed by the event loop in a later
\* callback (MonitorGatherRaises); whatever is ready runs before it.
CheckSite(site, origin, result) ==
    IF CheckSiteRaises(site, result)
    THEN /\ UNCHANGED status_data
         /\ monitor_pc' = IF origin = "sched" /\ monitor_pc = "gathering"
                          THEN "raising" ELSE monitor_pc
    ELSE /\ status_data' = UpdateSiteStatus(status_data, site, CheckSiteStatus(result),
                                            CheckSiteResponseTime(result))
         /\ UNCHANGED monitor_pc

\* Line 40 raises: monitor_sites is resumed with the exception of the
\* gather.  Nothing catches it there: the task ends.
MonitorGatherRaises ==
    /\ monitor_pc = "raising"
    /\ monitor_pc' = "crashed"
    /\ UNCHANGED <<monitored_sites, status_data, inflight, detached, sleep_delay, subs>>

\* Variant of check_site that also clears the paused flag of the site it
\* records an outcome for.
ProbeComplete_ResumesSite(i, origin, result) ==
    /\ i \in 1..Len(monitored_sites)
    /\ inflight[i][origin] > 0
    /\ inflight' = [inflight EXCEPT ![i][origin] = @ - 1]
    /\ CheckSite(monitored_sites[i], origin, result)
    /\ monitored_sites' = [monitored_sites EXCEPT ![i].paused = FALSE]
    /\ UNCHANGED <<detached, sleep_delay, subs>>

\* A check_site call on the listed site at position i gets its answer.
ProbeComplete(i, origin, result) ==
    /\ i \in 1..Len(monitored_sites)
    /\ inflight[i][origin] > 0
    /\ inflight' = [inflight EXCEPT ![i][origin] = @ - 1]
    /\ CheckSite(monitored_sites[i], origin, result)
    /\ UNCHANGED <<monitored_sites, detached, sleep_delay, subs>>

\* A check_site call whose site has left the list gets its answer.
DetachedProbeComplete(call, result) ==
    /\ BagIn(call, detached)
    /\ detached' = detached (-) SetToBag({call})
    /\ CheckSite(call.site, call.origin, result)
    /\ UNCHANGED <<monitored_sites, inflight, sleep_delay, subs>>

(***************************************************************************)
(* The request handlers.                                                   *)
(***************************************************************************)
(***************************************************************************)
(* A handler is an action on the state and, where a claim reads what the   *)
(* handler answers, an operator giving the body of its JSON response in    *)
(* the state the handler runs in (a handler runs to its return without     *)
(* yielding once its request is read; check_now yields inside check_site). *)
(***************************************************************************)
\* handle_add_site, lines 1240-1241 and 1248: the response.
AddSiteResponse(url) ==
    IF Registered(url)
    THEN [success |-> FALSE, error |-> "Site already exists"]
    ELSE [success |-> TRUE]

\* Variant of handle_add_site that starts the first probe of the new site
\* itself, as part of the cycle under way.
HandleAddSite_ProbesAtOnce(name, url, interval) ==
    /\ IF Registered(url)
       THEN UNCHANGED <<monitored_sites, inflight>>
       ELSE /\ monitored_sites' = Append(monitored_sites, MonitoredSite(name, url, interval))
            /\ inflight' = Append(inflight, [sched |-> 1, manual |-> 0])
    /\ UNCHANGED <<status_data, detached, monitor_pc, sleep_delay, subs>>

\* handle_add_site, lines 1237-1248: a new site is appended unless a listed
\* site has an equal URL (none is equal to NaN).  No call is in flight on
\* the new site.
HandleAddSite(name, url, interval) ==
    /\ IF Registered(url)
       THEN UNCHANGED <<monitored_sites, inflight>>
       ELSE /\ monitored_sites' = Append(monitored_sites, MonitoredSite(name, url, interval))
            /\ inflight' = Append(inflight, [sched |-> 0, manual |-> 0])
    /\ UNCHANGED <<status_data, detached, monitor_pc, sleep_delay, subs>>

\* handle_status, lines 1250-1254, and each message of
\* handle_status_updates, lines 1266-1270: the sites in list order and the
\* ledger, serialised in the state the handler runs in.
StatusSnapshot ==
    [sites |-> monitored_sites,
     status_data |-> [u \in {v \in Urls : status_data[v] # NoEntry} |-> status_data[u]]]

\* handle_site_details, lines 1280-1295: the response, for the URL of the
\* request's path (a string).  The handler changes no state.
SiteDetails(url) ==
    LET details == status_data[url]
        has     == details # NoEntry
    IN  [name |-> IF has THEN details.name ELSE url,
         url |-> url,
         last_status |-> IF has THEN details.last_status ELSE "unknown",
         uptime_percent |-> IF has THEN details.uptime_percent ELSE 0,
         avg_response_time |-> IF has THEN details.avg_response_time ELSE 0,
         total_checks |-> IF has THEN details.total_checks ELSE 0,
         up_count |-> IF has THEN details.up_count ELSE 0,
         down_count |-> IF has THEN details.down_count ELSE 0,
         history |-> IF has THEN details.history ELSE << >>,
         paused |-> IF Registered(url) THEN monitored_sites[FirstSite(url)].paused
                    ELSE FALSE]

\* A handler that raises (TypeError, UnicodeEncodeError): aiohttp answers
\* 500 for it.
Raised == [raised |-> TRUE]

\* handle_pause_site, lines 1306 and 1308: the response, or the TypeError
\* of line 1304 for an unhashable URL.
PauseSiteResponse(url) ==
    IF Registered(url)
    THEN IF Hashable(url)
         THEN [success |-> TRUE, paused |-> ~monitored_sites[FirstSite(url)].paused]
         ELSE Raised
    ELSE [success |-> FALSE, error |-> "Site not found"]

\* Variant of handle_pause_site that, finding no site of the URL, flips the
\* flag of the first site of the list.
HandlePauseSite_FirstOfList(url) ==
    /\ IF Registered(url) \/ monitored_sites # << >>
       THEN LET i == IF Registered(url) THEN FirstSite(url) ELSE 1
                p == ~monitored_sites[i].paused
                u == monitored_sites[i].url
            IN  /\ monitored_sites' = [monitored_sites EXCEPT ![i].paused = p]
                /\ status_data' = IF Hashable(u) /\ status_data[u] # NoEntry
                                  THEN [status_data EXCEPT ![u].paused = p]
                                  ELSE status_data
       ELSE UNCHANGED <<monitored_sites, status_data>>
    /\ UNCHANGED <<inflight, detached, monitor_pc, sleep_delay, subs>>

\* Variant of handle_pause_site that cancels the probes of the site that
\* are in flight.
HandlePauseSite_CancelsProbes(url) ==
    /\ IF Registered(url)
       THEN LET i == FirstSite(url)
                p == ~monitored_sites[i].paused
            IN  /\ monitored_sites' = [monitored_sites EXCEPT ![i].paused = p]
                /\ inflight' = [inflight EXCEPT ![i] = [sched |-> 0, manual |-> 0]]
                /\ status_data' = IF Hashable(url) /\ status_data[url] # NoEntry
                                  THEN [status_data EXCEPT ![url].paused = p]
                                  ELSE status_data
       ELSE UNCHANGED <<monitored_sites, status_data, inflight>>
    /\ UNCHANGED <<detached, monitor_pc, sleep_delay, subs>>

\* handle_pause_site, lines 1297-1308: the flag of the first site of this
\* URL is flipped.  For an unhashable URL line 1304 then raises TypeError,
\* the flag staying flipped.
HandlePauseSite(url) ==
    /\ IF Registered(url)
       THEN LET i == FirstSite(url)
                p == ~monitored_sites[i].paused
            IN  /\ monitored_sites' = [monitored_sites EXCEPT ![i].paused = p]
                /\ status_data' = IF Hashable(url) /\ status_data[url] # NoEntry
                                  THEN [status_data EXCEPT ![url].paused = p]
                                  ELSE status_data
       ELSE UNCHANGED <<monitored_sites, status_data>>
    /\ UNCHANGED <<inflight, detached, monitor_pc, sleep_delay, subs>>

\* handle_delete_site, line 1318: the response, the same for every URL, or
\* the TypeError of line 1315 for an unhashable one.
DeleteSiteResponse(url) == IF Hashable(url) THEN [success |-> TRUE] ELSE Raised

\* Line 1314: the positions of the sites the new list keeps.
Kept(url) == (1..Len(monitored_sites)) \ Positions(url)

\* Variant of handle_delete_site that fills the place of the deleted site
\* with the last site of the list.
HandleDeleteSite_SwapRemove(url) ==
    /\ IF Registered(url)
       THEN LET p == FirstSite(url)
                n == Len(monitored_sites)
            IN  /\ monitored_sites' =
                       [i \in 1..(n - 1) |-> IF i = p THEN monitored_sites[n] ELSE monitored_sites[i]]
                /\ inflight' = [i \in 1..(n - 1) |-> IF i = p THEN inflight[n] ELSE inflight[i]]
                /\ detached' = Detach(detached, {p})
       ELSE UNCHANGED <<monitored_sites, inflight, detached>>
    /\ status_data' = IF Hashable(url) THEN [status_data EXCEPT ![url] = NoEntry]
                      ELSE status_data
    /\ UNCHANGED <<monitor_pc, sleep_delay, subs>>

\* handle_delete_site, lines 1310-1318: the sites equal to the URL leave
\* the list (none does for NaN), the calls in flight on them keeping them;
\* then the entry the URL is a key of is removed.  For an unhashable URL
\* line 1315 raises TypeError, the list having been replaced.
HandleDeleteSite(url) ==
    /\ monitored_sites' = SubSeqAt(monitored_sites, Kept(url))
    /\ inflight' = SubSeqAt(inflight, Kept(url))
    /\ detached' = Detach(detached, Positions(url))
    /\ status_data' = IF Hashable(url) THEN [status_data EXCEPT ![url] = NoEntry]
                      ELSE status_data
    /\ UNCHANGED <<monitor_pc, sleep_delay, subs>>

\* handle_check_now, lines 1327 and 1329: the response, for a URL found
\* registered when the request is read (given the result its probe gets) or
\* not; when check_site raises, its exception.
CheckNowResponse(url, found, result) ==
    IF found
    THEN IF PrintRaises(url, result) \/ ~Hashable(url) THEN Raised
         ELSE [success |-> TRUE, status |-> CheckSiteStatus(result)]
    ELSE [success |-> FALSE, error |-> "Site not found"]

\* handle_check_now, lines 1320-1329, up to the await inside check_site;
\* the answer to the request is given when the call completes.
HandleCheckNow(url) ==
    /\ IF Registered(url)
       THEN inflight' = Launch(inflight, {FirstSite(url)}, "manual")
       ELSE UNCHANGED inflight
    /\ UNCHANGED <<monitored_sites, status_data, detached, monitor_pc, sleep_delay, subs>>

(***************************************************************************)
(* handle_status_updates, lines 1256-1278, per subscriber: "none" (no      *)
(* request under way), "writing" (a snapshot is serialised and the handler *)
(* waits in response.write for the client to take it) or "sleeping" (in    *)
(* asyncio.sleep(5)).  The handler reads the state and changes none of it. *)
(***************************************************************************)
\* Variant of the stream with one feed for all subscribers: the next
\* snapshot is written only when no subscriber is still taking one.
StreamTick_SharedFeed(s) ==
    /\ subs[s] = "sleeping"
    /\ \A t \in Subs : subs[t] # "writing"
    /\ subs' = [subs EXCEPT ![s] = "writing"]
    /\ UNCHANGED <<monitored_sites, status_data, inflight, detached, monitor_pc, sleep_delay>>

\* Variant of lines 1275-1278 in which the end of one stream ends them all.
StreamDisconnect_ClosesAll(s) ==
    /\ subs[s] # "none"
    /\ subs' = [t \in Subs |-> "none"]
    /\ UNCHANGED <<monitored_sites, status_data, inflight, detached, monitor_pc, sleep_delay>>

\* Lines 1257-1273: the request arrives, the response is prepared and the
\* first snapshot is serialised and handed to response.write.
HandleStatusUpdates(s) ==
    /\ subs[s] = "none"
    /\ subs' = [subs EXCEPT ![s] = "writing"]
    /\ UNCHANGED <<monitored_sites, status_data, inflight, detached, monitor_pc, sleep_delay>>

\* Line 1273 returns: the client has taken the message; line 1274 sleeps.
StreamWritten(s) ==
    /\ subs[s] = "writing"
    /\ subs' = [subs EXCEPT ![s] = "sleeping"]
    /\ UNCHANGED <<monitored_sites, status_data, inflight, detached, monitor_pc, sleep_delay>>

\* Line 1274 returns: the next snapshot is serialised (lines 1268-1272)
\* and handed to response.write.
StreamTick(s) ==
    /\ subs[s] = "sleeping"
    /\ subs' = [subs EXCEPT ![s] = "writing"]
    /\ UNCHANGED <<monitored_sites, status_data, inflight, detached, monitor_pc, sleep_delay>>

\* Lines 1275-1278: the client goes away (ConnectionResetError from the
\* write, or the handler is cancelled); the handler returns.
StreamDisconnect(s) ==
    /\ subs[s] # "none"
    /\ subs' = [subs EXCEPT ![s] = "none"]
    /\ UNCHANGED <<monitored_sites, status_data, inflight, detached, monitor_pc, sleep_delay>>

(***************************************************************************)
(* The specification: the server after start(), with the first pass of     *)
(* monitor_sites over the empty list done (it sleeps 10 s).                *)
(***************************************************************************)
\* The check_site calls that can be in flight once their sites have left
\* the list.
DetachedCalls ==
    {[site |-> [name |-> n, url |-> u, interval |-> t, paused |-> p], origin |-> o] :
        n \in Names, u \in Urls, t \in Intervals, p \in BOOLEAN, o \in Origins}

Init ==
    /\ monitored_sites = << >>
    /\ status_data = [u \in Urls |-> NoEntry]
    /\ inflight = << >>
    /\ detached = EmptyBag
    /\ monitor_pc = "sleeping"
    /\ sleep_delay = 10
    /\ subs = [s \in Subs |-> "none"]

Next ==
    \/ Room(Cardinality(Tasks)) /\ MonitorWake
    \/ MonitorGathered
    \/ MonitorGatherRaises
    \/ \E i \in 1..MaxSites, origin \in Origins, result \in SpecResults :
           ProbeComplete(i, origin, result)
    \/ \E call \in BagToSet(detached), result \in SpecResults :
           DetachedProbeComplete(call, result)
    \/ \E name \in Names, url \in Urls, interval \in Intervals :
           SiteRoom(url) /\ HandleAddSite(name, url, interval)
    \/ \E url \in Urls : HandlePauseSite(url)
    \/ \E url \in Urls : HandleDeleteSite(url)
    \/ \E url \in Urls : (Registered(url) => Room(1)) /\ HandleCheckNow(url)

Spec == Init /\ [][Next]_vars

(***************************************************************************)
(* SpecOrder: the program as in Spec, with room for three targets in the   *)
(* list and for fewer probes.                                              *)
(***************************************************************************)
\* The sites monitored_sites holds at once in SpecOrder.
MaxOrderSites == 3

\* The records and the probes in flight that SpecOrder goes up to.
MaxOrderChecks == 1

OrderSiteRoom(url) == Registered(url) \/ Len(monitored_sites) < MaxOrderSites

OrderRoom(n) == SumRecorded(Urls) + InFlightCalls + n <= MaxOrderChecks

NextOrder ==
    \/ OrderRoom(Cardinality(Tasks)) /\ MonitorWake
    \/ MonitorGathered
    \/ MonitorGatherRaises
    \/ \E i \in 1..MaxOrderSites, origin \in Origins, result \in SpecResults :
           ProbeComplete(i, origin, result)
    \/ \E call \in BagToSet(detached), result \in SpecResults :
           DetachedProbeComplete(call, result)
    \/ \E name \in Names, url \in Urls, interval \in Intervals :
           OrderSiteRoom(url) /\ HandleAddSite(name, url, interval)
    \/ \E url \in Urls : HandlePauseSite(url)
    \/ \E url \in Urls : HandleDeleteSite(url)
    \/ \E url \in Urls : (Registered(url) => OrderRoom(1)) /\ HandleCheckNow(url)

SpecOrder == Init /\ [][NextOrder]_vars

(***************************************************************************)
(* SpecLedger: one target, probed by check-now requests one after the      *)
(* other while monitor_sites sleeps, for long enough to pass the capacity  *)
(* of the history.  The first FreeHead results are arbitrary, the later    *)
(* ones follow a fixed pattern (the history then holds up to HistoryCap    *)
(* records, too many to vary freely).                                      *)
(***************************************************************************)
LedgerUrl == "u1"

LedgerResults(k) ==
    IF k <= FreeHead THEN ProbeResults
    ELSE IF k % UpEvery = 0 THEN {Response(200, 100)}
    ELSE {ProbeException}

InitLedger ==
    /\ monitored_sites = <<MonitoredSite("n1", LedgerUrl, 30)>>
    /\ status_data = [u \in Urls |-> NoEntry]
    /\ inflight = <<[sched |-> 0, manual |-> 0]>>
    /\ detached = EmptyBag
    /\ monitor_pc = "sleeping"
    /\ sleep_delay = 10
    /\ subs = [s \in Subs |-> "none"]

LedgerCheckNow ==
    /\ InFlightCalls = 0
    /\ Recorded(LedgerUrl) < MaxRecords
    /\ HandleCheckNow(LedgerUrl)

LedgerAnswer ==
    \E result \in LedgerResults(Recorded(LedgerUrl) + 1) : ProbeComplete(1, "manual", result)

NextLedger == LedgerCheckNow \/ LedgerAnswer

SpecLedger == InitLedger /\ [][NextLedger]_vars

(***************************************************************************)
(* SpecFeed: the server with the clients of /status_updates, and one URL   *)
(* for the other requests.                                                 *)
(***************************************************************************)
FeedUrl == "u1"

FeedInterval == 30

\* The records and the probes in flight that SpecFeed goes up to.
MaxFeedChecks == 1

FeedRoom(n) == SumRecorded(Urls) + InFlightCalls + n <= MaxFeedChecks

NextFeed ==
    \/ FeedRoom(Cardinality(Tasks)) /\ MonitorWake
    \/ MonitorGathered
    \/ \E origin \in Origins, result \in SpecResults : ProbeComplete(1, origin, result)
    \/ \E call \in BagToSet(detached), result \in SpecResults :
           DetachedProbeComplete(call, result)
    \/ \E name \in Names : HandleAddSite(name, FeedUrl, FeedInterval)
    \/ HandlePauseSite(FeedUrl)
    \/ HandleDeleteSite(FeedUrl)
    \/ (Registered(FeedUrl) => FeedRoom(1)) /\ HandleCheckNow(FeedUrl)
    \/ \E s \in Subs : HandleStatusUpdates(s)
    \/ \E s \in Subs : StreamWritten(s)
    \/ \E s \in Subs : StreamTick(s)
    \/ \E s \in Subs : StreamDisconnect(s)

SpecFeed == Init /\ [][NextFeed]_vars

(***************************************************************************)
(* SpecIntervals: the scheduler with add requests of any integer interval  *)
(* (line 1246 takes whatever int() makes of the request's field: a         *)
(* negative one, zero, one too large for a float, Huge), pause and delete  *)
(* requests, for the string URLs.                                          *)
(***************************************************************************)
AnyIntervals == {-5, 0, 30, 60, Huge}

NextIntervals ==
    \/ Room(Cardinality(Tasks)) /\ MonitorWake
    \/ MonitorGathered
    \/ \E i \in 1..MaxSites, result \in SpecResults : ProbeComplete(i, "sched", result)
    \/ \E call \in BagToSet(detached), result \in SpecResults :
           DetachedProbeComplete(call, result)
    \/ \E name \in Names, url \in StrUrls, interval \in AnyIntervals :
           HandleAddSite(name, url, interval)
    \/ \E url \in StrUrls : HandlePauseSite(url)
    \/ \E url \in StrUrls : HandleDeleteSite(url)

SpecIntervals == Init /\ [][NextIntervals]_vars

(***************************************************************************)
(* SpecCycle: the scheduler alone.  Two targets, of intervals 30 and 60,   *)
(* were added during the first 10 s sleep of monitor_sites; from then on   *)
(* only its cycles run (no request), each probing and recording both, so   *)
(* that when a sleep ends every entry was last written in the cycle before *)
(* that sleep.                                                              *)
(***************************************************************************)
\* The cycles SpecCycle goes up to, as the records and probes they make.
MaxCycleChecks == 6

CycleRoom(n) == SumRecorded(Urls) + InFlightCalls + n <= MaxCycleChecks

InitCycle ==
    /\ monitored_sites = <<MonitoredSite("n1", "u1", 30), MonitoredSite("n1", "u2", 60)>>
    /\ status_data = [u \in Urls |-> NoEntry]
    /\ inflight = <<[sched |-> 0, manual |-> 0], [sched |-> 0, manual |-> 0]>>
    /\ detached = EmptyBag
    /\ monitor_pc = "sleeping"
    /\ sleep_delay = 10
    /\ subs = [s \in Subs |-> "none"]

NextCycle ==
    \/ CycleRoom(Cardinality(Tasks)) /\ MonitorWake
    \/ MonitorGathered
    \/ \E i \in 1..2, result \in SpecResults : ProbeComplete(i, "sched", result)

SpecCycle == InitCycle /\ [][NextCycle]_vars

(***************************************************************************)
(* Fairness: the event loop runs every task that is ready (the sleep of    *)
(* monitor_sites ends, the gather returns once its probes are done) and    *)
(* every probe ends, by its answer or by its 10 s timeout.                 *)
(***************************************************************************)
FairSpec ==
    /\ Spec
    /\ WF_vars(Room(Cardinality(Tasks)) /\ MonitorWake)
    /\ WF_vars(MonitorGathered)
    /\ WF_vars(MonitorGatherRaises)
    /\ WF_vars(\E i \in 1..MaxSites, origin \in Origins, result \in SpecResults :
                   ProbeComplete(i, origin, result))
    /\ WF_vars(\E call \in BagToSet(detached), result \in SpecResults :
                   DetachedProbeComplete(call, result))

\* The event loop and the probes as in FairSpec, each probe by itself (it
\* ends by its answer or by its 10 s timeout), and the sleeps of the streams.
FairLoop ==
    /\ WF_vars(FeedRoom(Cardinality(Tasks)) /\ MonitorWake)
    /\ WF_vars(MonitorGathered)
    /\ \A origin \in Origins :
           WF_vars(\E result \in SpecResults : ProbeComplete(1, origin, result))
    /\ \A call \in DetachedCalls :
           WF_vars(\E result \in SpecResults : DetachedProbeComplete(call, result))
    /\ \A s \in Subs : WF_vars(StreamTick(s))

\* FairFeed: every client takes the messages written to it.
FairFeed == SpecFeed /\ FairLoop /\ \A s \in Subs : WF_vars(StreamWritten(s))

\* FairFeedSlow: the client SlowSub may take a message late or never; the
\* others take theirs.
SlowSub == "s1"

FairFeedSlow ==
    SpecFeed /\ FairLoop /\ \A s \in Subs \ {SlowSub} : WF_vars(StreamWritten(s))

(***************************************************************************)
(* The claims.                                                             *)
(***************************************************************************)
Entries == {u \in Urls : status_data[u] # NoEntry}

Paused(url) == monitored_sites[FirstSite(url)].paused

\* round(num / den, 2) of the exact quotient, in hundredths, ties to even.
ExactRound2(num, den) ==
    LET q == (100 * num) \div den
        r == (100 * num) % den
    IN  IF 2 * r > den \/ (2 * r = den /\ q % 2 = 1) THEN q + 1 ELSE q

\* C1: monitor_sites never terminates on its own: whatever add, pause,
\* delete and check-now requests came between its cycles, the loop is
\* still running.
C1_MonitorNeverTerminates == monitor_pc # "crashed"

\* C2: under fair scheduling, a target that stays registered and non-paused
\* from some point on is probed by the scheduler again and again: no
\* behaviour ends with the target registered and non-paused for ever (and
\* the bound of the model leaving room for the next cycle) without a
\* scheduler probe of it.  <>[]P => []<>Q is written []<>(~P \/ Q).
C2_ActiveTargetProbedAgain ==
    \A u \in Urls :
        []<>(\/ ~(Registered(u) /\ ~Paused(u) /\ Room(Cardinality(Tasks)))
             \/ inflight[FirstSite(u)].sched > 0)

\* C3: for every ledger entry, uptime_percent is
\* round(100 * up_count / total_checks, 2) (an entry always has
\* total_checks > 0; without an entry the details give 0).
C3_UptimePercentIsRoundedRatio ==
    /\ \A u \in Entries :
          status_data[u].uptime_percent =
              ExactRound2(100 * status_data[u].up_count, status_data[u].total_checks)
    /\ \A u \in StrUrls \ Entries : SiteDetails(u).uptime_percent = 0

\* The history and the counters of the entry of a URL (of no entry: empty
\* and zero).
History(sd, u) == IF sd[u] = NoEntry THEN << >> ELSE sd[u].history

Counters(sd, u) ==
    IF sd[u] = NoEntry THEN <<0, 0, 0>>
    ELSE <<sd[u].total_checks, sd[u].up_count, sd[u].down_count>>

Min(a, b) == IF a < b THEN a ELSE b

C4_E(u) == status_data[u]

C4_Inv ==
    \A u \in Entries :
        /\ C4_E(u).total_checks = C4_E(u).up_count + C4_E(u).down_count
        /\ Len(C4_E(u).history) = Min(C4_E(u).total_checks, 100)

\* A step that leaves an entry in place either keeps its counters or is a
\* record: total_checks and exactly one of up_count, down_count go up by 1.
C4_Step ==
    \A u \in Urls :
        status_data'[u] # NoEntry =>
            LET old == Counters(status_data, u)
                new == Counters(status_data', u)
            IN  \/ new = old
                \/ new = <<old[1] + 1, old[2] + 1, old[3]>>
                \/ new = <<old[1] + 1, old[2], old[3] + 1>>

\* C4: in every reachable state total_checks = up_count + down_count and
\* len(history) = min(total_checks, 100) for every entry, and the counters
\* are cumulative: each record raises total_checks and exactly one of
\* up_count and down_count by 1, eviction from the history included.
C4_CountersCumulative == []C4_Inv /\ [][C4_Step]_vars

\* C4 witness: records were made after the history was full.
C4_Witness ==
    /\ status_data[LedgerUrl] # NoEntry
    /\ status_data[LedgerUrl].total_checks = 110
    /\ Len(status_data[LedgerUrl].history) = 100
    /\ status_data[LedgerUrl].up_count > 0
    /\ status_data[LedgerUrl].down_count > 0

\* A record step appends the new outcome and, when the history was full,
\* evicts the oldest one.
C5_Step ==
    \A u \in Urls :
        Counters(status_data', u)[1] = Counters(status_data, u)[1] + 1 =>
            LET old == History(status_data, u)
                new == History(status_data', u)
            IN  /\ new # << >>
                /\ new = IF Len(old) < 100
                         THEN Append(old, new[Len(new)])
                         ELSE Append(Tail(old), new[Len(new)])

\* C5: a history never holds more than 100 outcomes, and a record that
\* would exceed the capacity evicts the oldest outcome: the history is the
\* most recent (at most 100) outcomes in record order.
C5_HistoryBoundedFifo ==
    /\ [](\A u \in Entries : Len(status_data[u].history) <= 100)
    /\ [][C5_Step]_vars

\* C5 witness: the history is full and three records older than it are gone.
C5_Witness ==
    /\ status_data[LedgerUrl] # NoEntry
    /\ status_data[LedgerUrl].total_checks = 103
    /\ Len(status_data[LedgerUrl].history) = 100
    /\ InFlightCalls = 0

\* The 'up' records of the history of the entry of u, counted and summed
\* over the latencies a probe result can have.
C6_UpLatencies == {r.latency : r \in ProbeResults}

C6_Count(u, l) ==
    Cardinality({i \in 1..Len(status_data[u].history) :
                    /\ status_data[u].history[i].status = "up"
                    /\ status_data[u].history[i].response_time = l})

RECURSIVE C6_Total(_, _, _)
C6_Total(u, ls, weighted) ==
    IF ls = {} THEN 0
    ELSE LET l == CHOOSE x \in ls : TRUE
         IN  (IF weighted THEN l ELSE 1) * C6_Count(u, l) + C6_Total(u, ls \ {l}, weighted)

\* C6 as claimed: avg_response_time is the mean latency of the 'up' outcomes
\* retained in the history window, and 0 when there is none
\* (avg_response_time is in hundredths).
C6_AvgIsMeanOfWindow ==
    \A u \in Entries :
        IF C6_Total(u, C6_UpLatencies, FALSE) = 0
        THEN status_data[u].avg_response_time = 0
        ELSE status_data[u].avg_response_time * C6_Total(u, C6_UpLatencies, FALSE)
                 = 100 * C6_Total(u, C6_UpLatencies, TRUE)

\* C6 as amended: avg_response_time is the mean latency of the 'up' outcomes
\* retained in the history window rounded to two decimal places, and 0 when
\* the window holds none; an evicted outcome does not contribute.
C6_AvgIsRoundedMeanOfWindow ==
    \A u \in Entries :
        IF C6_Total(u, C6_UpLatencies, FALSE) = 0
        THEN status_data[u].avg_response_time = 0
        ELSE status_data[u].avg_response_time
                 = ExactRound2(C6_Total(u, C6_UpLatencies, TRUE),
                               C6_Total(u, C6_UpLatencies, FALSE))

\* C6 witness: 'up' outcomes were evicted from the window (more were counted
\* than it holds), the window still holds some, and their mean has more
\* than two decimal places.
C6_Witness ==
    /\ status_data[LedgerUrl] # NoEntry
    /\ status_data[LedgerUrl].total_checks > 100
    /\ C6_Total(LedgerUrl, C6_UpLatencies, FALSE) > 0
    /\ C6_Total(LedgerUrl, C6_UpLatencies, FALSE) < status_data[LedgerUrl].up_count
    /\ (100 * C6_Total(LedgerUrl, C6_UpLatencies, TRUE))
           % C6_Total(LedgerUrl, C6_UpLatencies, FALSE) # 0

\* The registry holds a target whose URL is this value.
Listed(url) == \E i \in 1..Len(monitored_sites) : monitored_sites[i].url = url

\* The registered sites other than those of URL u, in list order.
OtherSites(ms, u) == SelectSeq(ms, LAMBDA site : site.url # u)

\* C7: when delete(url) returns, neither the registry nor the ledger holds
\* url, whatever the state before (checked or not, paused or not), and every
\* other target and its ledger entry are unchanged.
C7_DeleteRemovesTargetAndEntry ==
    [][\A u \in Urls :
          HandleDeleteSite(u) =>
              /\ \A i \in 1..Len(monitored_sites') : monitored_sites'[i].url # u
              /\ status_data'[u] = NoEntry
              /\ OtherSites(monitored_sites', u) = OtherSites(monitored_sites, u)
              /\ \A v \in Urls \ {u} : status_data'[v] = status_data[v]]_vars

NotFound(r) == "error" \in DOMAIN r

\* C8: the details of a URL that is not registered (never added, or deleted)
\* are a not-found result, not a detail record.
C8_UnregisteredDetailsNotFound ==
    \A u \in StrUrls : ~Registered(u) => NotFound(SiteDetails(u))

\* C9: add(name, url, interval) with a URL already registered fails with a
\* duplicate error and leaves the registry (length, order, each target's
\* name, interval and paused flag) and the whole ledger unchanged.
C9_DuplicateAddRejected ==
    [][\A name \in Names, u \in Urls, interval \in Intervals :
          (Listed(u) /\ SiteRoom(u) /\ HandleAddSite(name, u, interval)) =>
              /\ AddSiteResponse(u) = [success |-> FALSE, error |-> "Site already exists"]
              /\ monitored_sites' = monitored_sites
              /\ status_data' = status_data]_vars

\* A cycle starts a probe of a site of this URL.
SchedDispatched(u) == InFlightUrl(u, "sched")' > InFlightUrl(u, "sched")

\* C10: a scheduler cycle dispatches no probe for a target that is paused
\* when the cycle starts, and the pause operation leaves the history and the
\* counters (total_checks, up_count, down_count, uptime_percent,
\* avg_response_time) of every entry unchanged.
C10_PausedNotProbedHistoryKept ==
    [][/\ \A u \in Urls :
             SchedDispatched(u) =>
                 /\ monitored_sites' = monitored_sites
                 /\ \A i \in 1..Len(monitored_sites) :
                        inflight'[i].sched > inflight[i].sched => ~monitored_sites[i].paused
       /\ \A u \in Urls :
             HandlePauseSite(u) =>
                 \A v \in Urls :
                     /\ (status_data'[v] = NoEntry) = (status_data[v] = NoEntry)
                     /\ status_data[v] # NoEntry =>
                            /\ status_data'[v].history = status_data[v].history
                            /\ Counters(status_data', v) = Counters(status_data, v)
                            /\ status_data'[v].uptime_percent = status_data[v].uptime_percent
                            /\ status_data'[v].avg_response_time = status_data[v].avg_response_time]_vars

\* C10 witness: a cycle is under way with a probe of one target in flight
\* and none of the other, which is paused and has kept its entry.
C10_Witness ==
    /\ monitor_pc = "gathering"
    /\ \E u, v \in Urls :
          /\ Registered(u) /\ Registered(v)
          /\ Paused(u)
          /\ status_data[u] # NoEntry
          /\ status_data[u].paused
          /\ inflight[FirstSite(u)].sched = 0
          /\ ~Paused(v)
          /\ inflight[FirstSite(v)].sched > 0

\* What decides when the scheduler probes next and which sites: where
\* monitor_sites stands, the delay of its sleep, its own probes in flight,
\* the sites its next cycle would probe and the delay it would then take.
SchedulerState ==
    <<monitor_pc, sleep_delay, [u \in Urls |-> InFlightUrl(u, "sched")], Tasks, AfterGather>>

\* A probe of the given origin of a site of this URL ends.
Completed(u, origin) == InFlightUrl(u, origin)' < InFlightUrl(u, origin)

\* C11: a check-now request on a registered target starts a probe of it at
\* once, whatever the scheduler is doing (paused or not, cycle under way or
\* not), the probe's outcome is recorded, and neither the request nor the
\* recording changes when and what the scheduler probes next.
C11_CheckNowIndependentOfSchedule ==
    [][/\ \A u \in Urls :
             (Registered(u) /\ HandleCheckNow(u)) =>
                 /\ inflight'[FirstSite(u)].manual = inflight[FirstSite(u)].manual + 1
                 /\ SchedulerState' = SchedulerState
       /\ \A u \in Urls :
             Completed(u, "manual") =>
                 /\ status_data'[u] # NoEntry
                 /\ status_data'[u].total_checks = Recorded(u) + 1
                 /\ SchedulerState' = SchedulerState]_vars

\* The ledger's history of url is the previous one plus one record, the
\* outcome of some probe result.
GainsOneOutcome(url) ==
    \E result \in SpecResults :
        status_data'[url].history =
            AppendHistory(History(status_data, url), CheckSiteStatus(result),
                          CheckSiteResponseTime(result))

\* The probes in flight are those of before less one, of this URL and
\* origin.
OneLess(u, origin) ==
    \A v \in Urls, o \in Origins :
        InFlightUrl(v, o)' = InFlightUrl(v, o) - (IF v = u /\ o = origin THEN 1 ELSE 0)

\* C12: the probes a cycle starts together for its distinct targets
\* complete in any order, and the completion of each raises its own
\* target's total_checks by exactly 1, appends exactly one outcome to its own
\* target's history, and leaves every other target's entry and every other
\* probe as they were.
C12_ConcurrentProbesNoLostUpdate ==
    [][\A u \in Urls :
          Completed(u, "sched") =>
              /\ status_data'[u] # NoEntry
              /\ status_data'[u].total_checks = Recorded(u) + 1
              /\ GainsOneOutcome(u)
              /\ \A v \in Urls \ {u} : status_data'[v] = status_data[v]
              /\ OneLess(u, "sched")]_vars

\* C13: when a check-now probe and a scheduled probe of the same target are
\* in flight together, each completion, in whichever order they come, adds
\* one record (total_checks rises by 1 each time, by 2 in all), keeps the
\* records already in the history in place and puts its own after them, and
\* sets last_status to the status of that newest record; the other probe
\* stays in flight.
C13_RacingProbesRecordedInCompletionOrder ==
    [][\A u \in Urls, origin \in Origins :
          (Completed(u, origin) /\ Listed(u)) =>
              /\ status_data'[u] # NoEntry
              /\ LET h  == History(status_data, u)
                     h2 == History(status_data', u)
                 IN  /\ status_data'[u].total_checks = Recorded(u) + 1
                     /\ Len(h2) = Len(h) + 1
                     /\ \A i \in 1..Len(h) : h2[i] = h[i]
                     /\ status_data'[u].last_status = h2[Len(h2)].status
              /\ OneLess(u, origin)]_vars

\* C14: every record of a ledger history with status 'down' has response
\* time 0, whatever made the probe 'down'.
C14_DownHasZeroLatency ==
    \A u \in Entries :
        \A i \in 1..Len(status_data[u].history) :
            status_data[u].history[i].status = "down" =>
                status_data[u].history[i].response_time = 0

\* C15: the outcome of a probe is 'up' if and only if the probe got an
\* answer and its HTTP status is exactly 200; any other result (another
\* status, a transport error, a timeout) gives 'down'.  Whenever a
\* check_site call gets its result, the outcome it records is 'up' for an
\* answer 200 and 'down' for anything else.
C15_UpIffStatus200 ==
    [][\A i \in 1..MaxSites, origin \in Origins, result \in SpecResults :
          ProbeComplete(i, origin, result) =>
              LET u  == monitored_sites[i].url
                  h2 == status_data'[u].history
              IN  /\ status_data'[u] # NoEntry
                  /\ h2[Len(h2)].status =
                         (IF result.type = "response" /\ result.code = 200
                          THEN "up" ELSE "down")
                  /\ status_data'[u].last_status = h2[Len(h2)].status]_vars

\* The end of a probe makes one record for its target and touches neither
\* the scheduler's loop nor the other probes.
C16_Step ==
    \A u \in Urls, origin \in Origins :
        Completed(u, origin) =>
            /\ status_data'[u] # NoEntry
            /\ status_data'[u].total_checks = Recorded(u) + 1
            /\ status_data'[u].last_status \in {"up", "down"}
            /\ OneLess(u, origin)
            /\ monitor_pc' = monitor_pc

\* C16: a probe never raises to its caller.  Whatever its result (answer
\* 200 or an exception from transport or timeout), the end of a probe makes
\* exactly one ledger record for its target, and it aborts neither the cycle
\* that started it nor the other probes, which stay in flight and are
\* recorded in their turn.
C16_ProbeNeverRaises == [][C16_Step]_vars

\* C17: the entry a snapshot shows for a listed target is made only of
\* outcomes of that target's current registration: when a probe started for
\* a registration that has since been deleted (its site object is no longer
\* in monitored_sites) completes after the URL was registered again, it adds
\* nothing to the entry of that URL.
C17_NoOutcomeFromEarlierRegistration ==
    [][\A call \in BagToSet(detached) :
          (/\ CopiesIn(call, detached') < CopiesIn(call, detached)
           /\ Registered(call.site.url)) =>
              status_data'[call.site.url] = status_data[call.site.url]]_vars

\* An entry is whole: its counters add up, its history is within the
\* capacity, and uptime_percent, avg_response_time, last_status and
\* response_time are the ones update_site_status derives from these
\* counters and this history.
C18_Whole(e) ==
    /\ e.total_checks = e.up_count + e.down_count
    /\ e.total_checks >= 1
    /\ Len(e.history) <= HistoryCap
    /\ Len(e.history) = Min(e.total_checks, HistoryCap)
    /\ e.uptime_percent = UptimePercent(e.up_count, e.total_checks)
    /\ e.avg_response_time = AvgResponseTime(e.history)
    /\ e.last_status = e.history[Len(e.history)].status
    /\ e.response_time = e.history[Len(e.history)].response_time

\* C18: no reader sees a half-updated entry.  Whenever a snapshot (status
\* endpoint, stream message) or a detail response is produced, between any
\* two steps of the probes and handlers, every entry in it is whole, and
\* the detail response of a URL (a string, from the request's path) shows
\* the fields of that same entry.
C18_ReadersSeeWholeEntries ==
    /\ \A u \in DOMAIN StatusSnapshot.status_data : C18_Whole(StatusSnapshot.status_data[u])
    /\ \A u \in StrUrls \cap DOMAIN StatusSnapshot.status_data :
           /\ SiteDetails(u).total_checks = StatusSnapshot.status_data[u].total_checks
           /\ SiteDetails(u).up_count = StatusSnapshot.status_data[u].up_count
           /\ SiteDetails(u).down_count = StatusSnapshot.status_data[u].down_count
           /\ SiteDetails(u).uptime_percent = StatusSnapshot.status_data[u].uptime_percent
           /\ SiteDetails(u).avg_response_time = StatusSnapshot.status_data[u].avg_response_time
           /\ SiteDetails(u).history = StatusSnapshot.status_data[u].history

\* C18 witness: a snapshot taken while a probe of u1 is in flight, after
\* another of its probes was recorded, lists two sites and shows u1 with an
\* entry of one check, up, 100 percent.
C18_Witness ==
    /\ Len(StatusSnapshot.sites) = 2
    /\ "u1" \in DOMAIN StatusSnapshot.status_data
    /\ StatusSnapshot.status_data["u1"].total_checks = 1
    /\ StatusSnapshot.status_data["u1"].up_count = 1
    /\ StatusSnapshot.status_data["u1"].uptime_percent = 10000
    /\ InFlightUrl("u1", "sched") + InFlightUrl("u1", "manual") > 0

\* C19: a subscriber that is slow, blocked for any length of time in the
\* write of a snapshot, blocks neither the scheduler (a cycle that is due
\* starts, its probes are recorded and its gather returns) nor the delivery
\* of snapshots to any other subscriber (which, while connected, goes on
\* from sleep to write and from write to sleep).
C19_SlowSubscriberBlocksNobody ==
    /\ []<>(~(monitor_pc = "sleeping" /\ Tasks # {} /\ FeedRoom(Cardinality(Tasks))))
    /\ []<>(monitor_pc # "gathering")
    /\ []<>(~SchedInFlight)
    /\ \A s \in Subs \ {SlowSub} : []<>(subs[s] # "sleeping") /\ []<>(subs[s] # "writing")

\* C19 witness: the slow subscriber is blocked in a write while the other
\* one sleeps after taking a snapshot and the scheduler, having had its
\* cycle's probe recorded, sleeps the interval of the target.
C19_Witness ==
    /\ subs[SlowSub] = "writing"
    /\ \E s \in Subs \ {SlowSub} : subs[s] = "sleeping"
    /\ monitor_pc = "sleeping"
    /\ sleep_delay = FeedInterval
    /\ status_data[FeedUrl] # NoEntry
    /\ status_data[FeedUrl].total_checks = 1

\* A new stream starts with a snapshot, and the start and the end of a
\* stream change no other stream and nothing of the scheduler's.
C20_Step ==
    \A s \in Subs :
        /\ (subs[s] = "none" /\ subs'[s] # "none") => subs'[s] = "writing"
        /\ (subs[s] = "none") # (subs'[s] = "none") =>
               /\ \A t \in Subs \ {s} : subs'[t] = subs[t]
               /\ UNCHANGED <<monitored_sites, status_data, inflight, detached, monitor_pc,
                              sleep_delay>>

\* C20: a subscriber gets a first snapshot written to it when it subscribes
\* and, the clients taking what is written to them, goes on getting
\* snapshots for as long as it stays connected (it is never left for good in
\* the write or in the sleep), whatever the number of subscribers; a
\* subscriber that disconnects ends its own stream only.
C20_SubscribersKeepReceiving ==
    /\ [][C20_Step]_vars
    /\ \A s \in Subs : []<>(subs[s] # "writing") /\ []<>(subs[s] # "sleeping")

\* C20 witness: two subscribers are connected, one being written to, the
\* other asleep between two snapshots, with the scheduler out of action
\* (its loop has ended).
C20_Witness ==
    /\ subs["s1"] = "sleeping"
    /\ subs["s2"] = "writing"
    /\ monitor_pc = "crashed"

\* The three outcomes of the scenario: up in 100 ms, up in 200 ms, no
\* response.
C21_Scenario ==
    <<[status |-> "up", response_time |-> 100],
      [status |-> "up", response_time |-> 200],
      [status |-> "down", response_time |-> 0]>>

\* C21: an entry whose first three outcomes are up/100 ms, up/200 ms and no
\* response has total_checks 3, up_count 2, down_count 1, uptime_percent
\* 66.67, avg_response_time 150.0 and last_status down; and every entry's
\* last_status is the status of its most recently recorded outcome.
C21_ScenarioAndLastStatus ==
    \A u \in Entries :
        /\ status_data[u].last_status =
               status_data[u].history[Len(status_data[u].history)].status
        /\ status_data[u].history = C21_Scenario =>
               /\ status_data[u].total_checks = 3
               /\ status_data[u].up_count = 2
               /\ status_data[u].down_count = 1
               /\ status_data[u].uptime_percent = 6667
               /\ status_data[u].avg_response_time = 15000
               /\ status_data[u].last_status = "down"

\* C21 witness: the three checks of the scenario have been recorded.
C21_Witness ==
    /\ status_data[LedgerUrl] # NoEntry
    /\ status_data[LedgerUrl].history = C21_Scenario

\* C22: remove is idempotent.  A delete of a URL that is not registered
\* leaves the registry and the ledger as they are (so a second delete of the
\* same URL changes nothing after the first).
C22_DeleteUnregisteredChangesNothing ==
    [][\A u \in Urls :
          (~Listed(u) /\ HandleDeleteSite(u)) =>
              UNCHANGED <<monitored_sites, status_data>>]_vars

\* C23: the delete of a URL that is not registered answers with a not-found
\* error, not with success.
C23_DeleteUnregisteredNotFound ==
    \A u \in Urls :
        ~Registered(u) => (NotFound(DeleteSiteResponse(u)) /\ ~DeleteSiteResponse(u).success)

\* C24: a pause request for a URL that is not registered is answered with
\* a not-found error and changes neither the registry (no flag flips) nor the
\* ledger (no entry is created or modified).
C24_PauseUnregisteredNotFound ==
    /\ [](\A u \in Urls :
             ~Registered(u) =>
                 PauseSiteResponse(u) = [success |-> FALSE, error |-> "Site not found"])
    /\ [][\A u \in Urls :
             (~Registered(u) /\ HandlePauseSite(u)) =>
                 UNCHANGED <<monitored_sites, status_data>>]_vars

\* C24 witness: u1 is not registered (it was deleted) while the ledger has
\* an entry for it, left by a probe, and u2 is registered: a pause request
\* for u1 is answered with the error.
C24_Witness ==
    /\ ~Registered("u1")
    /\ status_data["u1"] # NoEntry
    /\ Registered("u2")
    /\ NotFound(PauseSiteResponse("u1"))

\* C25: a pause request is idempotent.  Once a request on a registered
\* target has been served, the same request served again in the resulting
\* state leaves the paused flag as it is: the value it would answer is the
\* value the flag has.
C25_PauseIdempotent ==
    [][\A u \in Urls :
          (Registered(u) /\ Hashable(u) /\ HandlePauseSite(u)) =>
              PauseSiteResponse(u)'.paused = monitored_sites'[FirstSite(u)].paused]_vars

\* The probe of a check-now request for this URL gets this result.
C26_Answered(u, result) ==
    \/ \E i \in 1..Len(monitored_sites) :
           monitored_sites[i].url = u /\ ProbeComplete(i, "manual", result)
    \/ \E call \in BagToSet(detached) :
           /\ call.site.url = u
           /\ call.origin = "manual"
           /\ DetachedProbeComplete(call, result)

\* C26: a check-now for a URL that is not registered is answered with a
\* not-found error, starts no probe and changes neither registry nor ledger;
\* for a registered URL the answer carries the status of the outcome the
\* request's probe has just recorded.
C26_CheckNowNotFoundOrRecordedStatus ==
    /\ [](\A u \in Urls, result \in SpecResults :
             NotFound(CheckNowResponse(u, Registered(u), result)) <=> ~Registered(u))
    /\ [][/\ \A u \in Urls :
                 (~Registered(u) /\ HandleCheckNow(u)) =>
                     UNCHANGED <<inflight, detached, monitored_sites, status_data>>
          /\ \A u \in Urls, result \in SpecResults :
                 C26_Answered(u, result) =>
                     /\ status_data'[u] # NoEntry
                     /\ CheckNowResponse(u, TRUE, result) =
                            [success |-> TRUE,
                             status |-> status_data'[u].history[Len(status_data'[u].history)].status]
                     /\ CheckNowResponse(u, TRUE, result).status = status_data'[u].last_status]_vars

\* The URLs of a snapshot's target list, in its order.
SnapshotUrls == [i \in 1..Len(StatusSnapshot.sites) |-> StatusSnapshot.sites[i].url]

\* C27: the target list of a snapshot is in insertion order.  From one
\* state to the next the list is the same, or has one new target at its end
\* (a successful add), or has lost the target of one URL with the others in
\* the order they had (a delete); a delete leaves the targets of the other
\* URLs in their order, and pause, check-now and the scheduler's cycles
\* leave the list as it is.
C27_SnapshotInInsertionOrder ==
    [][/\ \/ SnapshotUrls' = SnapshotUrls
          \/ \E u \in Urls : SnapshotUrls' = Append(SnapshotUrls, u)
          \/ \E u \in Urls : SnapshotUrls' = SelectSeq(SnapshotUrls, LAMBDA x : x # u)
       /\ \A name \in Names, u \in Urls, interval \in Intervals :
              (~Registered(u) /\ OrderSiteRoom(u) /\ HandleAddSite(name, u, interval)) =>
                  SnapshotUrls' = Append(SnapshotUrls, u)
       /\ \A u \in Urls :
              HandleDeleteSite(u) =>
                  OtherSites(StatusSnapshot.sites', u) = OtherSites(StatusSnapshot.sites, u)
       /\ \A u \in Urls :
              (HandlePauseSite(u) \/ HandleCheckNow(u)) => SnapshotUrls' = SnapshotUrls
       /\ (\/ MonitorWake \/ MonitorGathered \/ MonitorGatherRaises
           \/ \E i \in 1..MaxOrderSites, origin \in Origins, result \in SpecResults :
                  ProbeComplete(i, origin, result)
           \/ \E call \in BagToSet(detached), result \in SpecResults :
                  DetachedProbeComplete(call, result)) =>
              SnapshotUrls' = SnapshotUrls]_vars

\* C27 witness: of three targets the one added second was deleted while a
\* probe of it was in flight; the snapshot lists the one added first, paused
\* since, before the one added last.
C27_Witness ==
    /\ SnapshotUrls = <<"u2", "u1">>
    /\ StatusSnapshot.sites[1].paused
    /\ \E call \in BagToSet(detached) : call.site.url = UrlSurrogate

\* C28: the ledger holds entries only for URLs that are registered: a
\* probe in flight when its target is deleted leaves no entry for the
\* deleted URL when it completes.
C28_LedgerOnlyForRegistered ==
    \A u \in Urls : status_data[u] # NoEntry => Listed(u)

\* The sites, by position, that this step starts a scheduler probe of.
C29_Launched == {i \in 1..Len(monitored_sites) : inflight'[i].sched > inflight[i].sched}

\* C29: a cycle probes exactly the non-paused targets that are due: never
\* checked, or with their own interval elapsed since their last check.  In
\* SpecCycle a target that has an entry was last checked in the cycle before
\* the sleep that ends, between sleep_delay and sleep_delay + ProbeTimeout
\* seconds ago: a cycle starts no probe of a checked target whose interval
\* is longer than that (the 60 s target after a sleep of 30 s), and starts
\* one for every non-paused target never checked or with an interval of at
\* most sleep_delay.
C29_OnlyDueTargetsProbed ==
    [][(monitor_pc = "sleeping" /\ monitor_pc' = "gathering") =>
           /\ \A i \in C29_Launched :
                  \/ status_data[monitored_sites[i].url] = NoEntry
                  \/ monitored_sites[i].interval <= sleep_delay + ProbeTimeout
           /\ \A i \in Tasks :
                  (\/ status_data[monitored_sites[i].url] = NoEntry
                   \/ monitored_sites[i].interval <= sleep_delay) => i \in C29_Launched]_vars

\* The intervals of the listed targets that are not paused.
C30_Intervals == {monitored_sites[i].interval : i \in Tasks}

\* A step on which a cycle ends: the gather returns, or a cycle without
\* any probe goes straight to its sleep.
C30_CycleEnds ==
    \/ monitor_pc = "gathering" /\ monitor_pc' \in {"sleeping", "crashed"}
    \/ monitor_pc = "sleeping" /\ monitor_pc' = "sleeping" /\ sleep_delay' # sleep_delay

\* The sleep that follows a cycle is called with the least interval.
C30_Step ==
    C30_CycleEnds =>
        /\ C30_Intervals # {} =>
               /\ sleep_delay' \in C30_Intervals
               /\ \A t \in C30_Intervals : sleep_delay' <= t
        /\ monitored_sites = << >> =>
               /\ monitor_pc' = "sleeping"
               /\ sleep_delay' = 10

\* C30: when a cycle ends, the delay of the sleep that follows is the least
\* interval of the targets listed and not paused at that moment (those added
\* or resumed during the cycle included, those paused or deleted during it
\* excluded), and is 10 when no target is listed.
C30_NextDelayIsMinInterval == [][C30_Step]_vars

\* A cycle probed the 60 s target alone and sleeps 60 s, the 30 s target
\* being listed but paused.
C30_Witness ==
    /\ monitor_pc = "sleeping"
    /\ sleep_delay = 60
    /\ \E i \in 1..Len(monitored_sites) :
           /\ monitored_sites[i].paused
           /\ monitored_sites[i].interval = 30
           /\ status_data[monitored_sites[i].url] = NoEntry
    /\ \E i \in 1..Len(monitored_sites) :
           /\ ~monitored_sites[i].paused
           /\ monitored_sites[i].interval = 60
           /\ status_data[monitored_sites[i].url] # NoEntry

\* This step lists a new target, or resumes a listed one.
C31_AddedOrResumed ==
    \/ Len(monitored_sites') > Len(monitored_sites)
    \/ /\ Len(monitored_sites') = Len(monitored_sites)
       /\ \E i \in 1..Len(monitored_sites) :
              monitored_sites[i].paused /\ ~monitored_sites'[i].paused

\* C31: an add or a resume made while monitor_sites sleeps cuts that sleep
\* short: the sleep that was started with sleep_delay seconds ends before
\* they have elapsed.
C31_AddOrResumeWakesScheduler ==
    [][(monitor_pc = "sleeping" /\ C31_AddedOrResumed) =>
           (monitor_pc' # "sleeping" \/ sleep_delay' < sleep_delay)]_vars

\* A cycle starts: gather() starts the check_site call of every target of
\* the cycle in the same step.
C32_DispatchedTogether ==
    (monitor_pc = "sleeping" /\ monitor_pc' = "gathering") =>
        /\ Tasks # {}
        /\ \A i \in Tasks : inflight'[i].sched = inflight[i].sched + 1

\* The scheduler's probes in flight.
C32_SchedCalls ==
    SumOrigin(1..Len(monitored_sites), "sched")
    + SumCopies({c \in BagToSet(detached) : c.origin = "sched"})

\* A probe of the cycle completes while another one of the same cycle is
\* still out: its outcome is in what a reader gets from then on, the cycle
\* goes on and the other probe stays in flight.
C32_RecordedAtCompletion ==
    \A u \in Urls :
        (Completed(u, "sched") /\ C32_SchedCalls >= 2) =>
            /\ u \in DOMAIN StatusSnapshot'.status_data
            /\ StatusSnapshot'.status_data[u].total_checks = Recorded(u) + 1
            /\ monitor_pc' = "gathering"
            /\ OneLess(u, "sched")

\* C32: a cycle dispatches the probes of all its targets together, and each
\* outcome is recorded at the completion of its own probe, without waiting
\* for the other probes of the cycle: a reader sees the fast target's new
\* outcome while the slow target's probe is still in flight.
C32_FanOutAndImmediateRecord ==
    [][C32_DispatchedTogether /\ C32_RecordedAtCompletion]_vars

\* C33: a target added while a cycle is under way or while monitor_sites
\* sleeps gets no probe from the add nor from the cycle under way (a cycle
\* starts probes only when it starts), and the next cycle that starts probes
\* every target listed and not paused at that moment, the added one among
\* them.
C33_AddedTargetProbedByNextCycle ==
    [][/\ Len(monitored_sites') > Len(monitored_sites) =>
              /\ inflight' = Append(inflight, [sched |-> 0, manual |-> 0])
              /\ detached' = detached
       /\ monitor_pc # "sleeping" =>
              \A u \in Urls : InFlightUrl(u, "sched")' <= InFlightUrl(u, "sched")
       /\ (monitor_pc = "sleeping" /\ monitor_pc' = "gathering") =>
              /\ monitored_sites' = monitored_sites
              /\ detached' = detached
              /\ \A i \in 1..Len(monitored_sites) :
                     inflight'[i].sched = inflight[i].sched + 1 <=> ~monitored_sites[i].paused]_vars

\* u2 was added while the cycle's probe of u1 is out: it is listed and not
\* paused, and has neither a probe in flight nor an outcome.
C33_Witness ==
    /\ monitor_pc = "gathering"
    /\ Registered("u1") /\ Registered("u2")
    /\ FirstSite("u1") = 1
    /\ inflight[1].sched = 1
    /\ ~Paused("u2")
    /\ inflight[FirstSite("u2")] = [sched |-> 0, manual |-> 0]
    /\ status_data["u2"] = NoEntry

C34_Inv ==
    /\ \A i \in 1..Len(monitored_sites) : inflight[i].sched <= 1
    /\ \A url \in Urls : InFlightUrl(url, "sched") <= 1

\* The completion of a probe, failed or not, starts no scheduler probe, and
\* a cycle starts only when the probes of the one before have completed.
C34_NoRetry ==
    /\ \A u \in Urls :
           (\E v \in Urls, origin \in Origins : Completed(v, origin)) =>
               InFlightUrl(u, "sched")' <= InFlightUrl(u, "sched")
    /\ (\E u \in Urls : SchedDispatched(u)) => ~SchedInFlight

\* C34: the scheduler starts at most one probe per target per cycle, starts
\* none again when one fails, and starts a cycle only when every probe of
\* the one before has completed: at any time at most one probe started by
\* the scheduler is in flight for a URL, any further one comes from
\* check-now.
C34_OneSchedulerProbePerUrl == []C34_Inv /\ [][C34_NoRetry]_vars

\* A step that records an outcome for this URL.
C35_Records(u) == status_data'[u] # NoEntry /\ status_data'[u].total_checks = Recorded(u) + 1

\* C35: the step that records the outcome of a probe of a target (URL)
\* changes the ledger entry of that URL only: the entry of every other URL
\* is the same after as before, and so is the registry, that is the listed
\* targets, their order, names, intervals and paused flags.
C35_RecordChangesOneEntryOnly ==
    [][\A u \in Urls :
          C35_Records(u) =>
              /\ Completed(u, "sched") \/ Completed(u, "manual")
              /\ status_data'[u] # status_data[u]
              /\ \A v \in Urls \ {u} : status_data'[v] = status_data[v]
              /\ monitored_sites' = monitored_sites]_vars

\* An outcome of u1 was recorded while u2, listed after it and paused, has
\* an entry of its own.
C35_Witness ==
    /\ Registered("u1") /\ Registered("u2")
    /\ FirstSite("u1") = 1
    /\ Paused("u2")
    /\ status_data["u1"] # NoEntry /\ status_data["u2"] # NoEntry
    /\ status_data["u1"].last_status # status_data["u2"].last_status
    /\ InFlightCalls = 0

C36_Inv ==
    \A i, j \in 1..Len(monitored_sites) :
        monitored_sites[i].url = monitored_sites[j].url => i = j

\* The list gains a target: it is put last, and is not paused.
C36_NewTargetNotPaused ==
    Len(monitored_sites') > Len(monitored_sites) =>
        /\ Len(monitored_sites') = Len(monitored_sites) + 1
        /\ ~monitored_sites'[Len(monitored_sites')].paused

\* C36: in every reachable state, whatever adds (repeated ones for a URL
\* included, each running lines 1240-1247 without yielding), deletes,
\* pauses and check-nows came before, no two listed targets have the same
\* URL; and a target is not paused when it is added.
C36_UniqueUrlsAndNewNotPaused == []C36_Inv /\ [][C36_NewTargetNotPaused]_vars

\* C37: every listed target has an interval greater than 0, whatever the
\* interval of the add requests, and so the delay monitor_sites sleeps is
\* positive.
C37_IntervalsPositive ==
    /\ \A i \in 1..Len(monitored_sites) : monitored_sites[i].interval > 0
    /\ monitor_pc = "sleeping" => sleep_delay > 0

\* C38: in every reachable state, whatever pauses, resumes, deletes, adds of
\* the same URL again and completions of probes came before, the 'paused'
\* field of the ledger entry of a listed target is the target's paused flag.
C38_EntryPausedIsRegistryFlag ==
    \A url \in Urls :
        (Registered(url) /\ status_data[url] # NoEntry) =>
            status_data[url].paused = Paused(url)

\* The target of this URL is listed and paused before and after the step.
C39_StaysPaused(url) ==
    /\ Registered(url) /\ Paused(url)
    /\ Registered(url)' /\ Paused(url)'

\* A probe of this URL, started by check-now or by a cycle, completes.
C39_ProbeOfUrlCompletes(url) ==
    \E origin \in Origins : Completed(url, origin) /\ OneLess(url, origin)

C39_Step ==
    /\ \A url \in Urls :
           (C39_StaysPaused(url) /\ status_data'[url] # status_data[url]) =>
               /\ C39_ProbeOfUrlCompletes(url)
               /\ status_data'[url] # NoEntry
               /\ status_data'[url].total_checks = Recorded(url) + 1
    /\ Len(monitored_sites') = Len(monitored_sites) =>
           \A i \in 1..Len(monitored_sites) :
               /\ monitored_sites[i].paused => inflight'[i].sched <= inflight[i].sched
               /\ monitored_sites[i].paused # monitored_sites'[i].paused =>
                      inflight' = inflight /\ detached' = detached

\* C39: while a target stays paused, its ledger entry changes only by the
\* record of a probe of its URL that completes, a check-now probe or one a
\* cycle had started before the pause; the pause leaves the probes in
\* flight as they are, and no cycle starts a probe of a paused target.
C39_PausedEntryChangesOnlyByProbes == [][C39_Step]_vars

\* u1 was paused with the cycle's probe of it still out, then probed by
\* check-now, whose outcome is recorded: the cycle's probe is still in
\* flight.
C39_Witness ==
    /\ Registered("u1") /\ Paused("u1")
    /\ monitor_pc = "gathering"
    /\ inflight[FirstSite("u1")] = [sched |-> 1, manual |-> 0]
    /\ status_data["u1"] # NoEntry
    /\ status_data["u1"].total_checks = 1
    /\ status_data["u1"].paused

====
